---- MODULE Spec2Model ----
(* A model of the olova builder: the Vite plugin (vite-plugin-olova), the   *)
(* CSS scoper it uses, the module it emits for a component file, and the    *)
(* runtime mount helper of olova.js.                                        *)
(*                                                                          *)
(* Text is a sequence of tokens (strings): a token is one character or one  *)
(* lexeme the code only ever handles whole (".olova", "@media", ":root").   *)
EXTENDS Integers, Sequences, FiniteSets, TLC

VARIABLES
  (* transformScopedCss, one loop iteration per step *)
  css,              \* the css argument, a token sequence with "\n" tokens
  shape,            \* ghost: the role of each line in the input's grammar
  scopeId,          \* the scopeId argument
  pos,              \* index of the next line of the for-of loop
  inRule,           \* let inRule
  currentSelectors, \* let currentSelectors
  processedCss      \* let processedCss, the text written so far

cssVars == <<css, shape, scopeId, pos, inRule, currentSelectors, processedCss>>

(* the plugin object returned by olovaPlugin() *)
VARIABLES
  allCssContent,  \* const allCssContent = new Map(): its entries in insertion order
  isProd,         \* let isProd
  compiled,       \* ghost: the styled compiles since the last buildStart, in order
  phase,          \* ghost: where the host is in a build
  bundle,         \* ghost: the files emitted since the last buildStart
  last            \* the most recent hook call: its arguments, return value, emitFile calls

pluginVars == <<allCssContent, isProd, compiled, phase, bundle, last>>

(* the browser page *)
VARIABLES
  dom,      \* the nodes ever created
  loaded,   \* the component files whose module has been evaluated
  calls,    \* ghost: every invocation of an emitted mount function, in order
  handles,  \* the teardown functions returned to the page's own code
  errors,   \* the console.error messages
  run       \* the page's most recent step, with the document before it

browserVars == <<dom, loaded, calls, handles, errors, run>>

vars == <<cssVars, pluginVars, browserVars>>

(* ------------------------------------------------------------------ *)
(* Token-sequence helpers (String.prototype methods used by the code)  *)
(* ------------------------------------------------------------------ *)

\* s.indexOf(t), 1-based; 0 when absent (JS: -1)
IndexOf(s, t) ==
  IF \E i \in 1..Len(s) : s[i] = t
    THEN CHOOSE i \in 1..Len(s) : s[i] = t /\ \A j \in 1..(i - 1) : s[j] # t
    ELSE 0

\* s.includes(t)
Includes(s, t) == IndexOf(s, t) # 0

RECURSIVE TrimStart(_)
TrimStart(s) ==
  IF s # <<>> /\ Head(s) = " " THEN TrimStart(Tail(s)) ELSE s

RECURSIVE TrimEnd(_)
TrimEnd(s) ==
  IF s # <<>> /\ s[Len(s)] = " " THEN TrimEnd(SubSeq(s, 1, Len(s) - 1)) ELSE s

\* s.trim()
Trim(s) == TrimEnd(TrimStart(s))

\* s.split(sep): the pieces between the separators (always at least one)
RECURSIVE Split(_, _)
Split(s, sep) ==
  LET k == IndexOf(s, sep) IN
  IF k = 0 THEN <<s>>
  ELSE <<SubSeq(s, 1, k - 1)>> \o Split(SubSeq(s, k + 1, Len(s)), sep)

\* parts.join(sep), sep a token sequence
RECURSIVE Join(_, _)
Join(parts, sep) ==
  IF parts = <<>> THEN <<>>
  ELSE IF Len(parts) = 1 THEN parts[1]
  ELSE parts[1] \o sep \o Join(Tail(parts), sep)

\* s.replace(t, by): the first occurrence only
ReplaceFirst(s, t, by) ==
  LET k == IndexOf(s, t) IN
  IF k = 0 THEN s
  ELSE SubSeq(s, 1, k - 1) \o by \o SubSeq(s, k + 1, Len(s))

\* arr.map(f) for the two maps of the scoper
RECURSIVE MapTrim(_)
MapTrim(parts) ==
  IF parts = <<>> THEN <<>> ELSE <<Trim(Head(parts))>> \o MapTrim(Tail(parts))

(* ------------------------------------------------------------------ *)
(* transformScopedCss                                                  *)
(* ------------------------------------------------------------------ *)

\* tokens that start with "@"
AtTokens == {"@media", "@keyframes"}

\* selector.startsWith("@")
StartsWithAt(selector) == selector # <<>> /\ Head(selector) \in AtTokens

\* `[${scopeId}]`
Bracketed(sid) == <<"[">> \o sid \o <<"]">>

\* the callback of currentSelectors.map(...)
ScopeSelector(selector, sid) ==
  IF StartsWithAt(selector) THEN selector
  ELSE IF Includes(selector, ":root")
    THEN ReplaceFirst(selector, ":root", Bracketed(sid))
  ELSE Bracketed(sid) \o <<" ">> \o selector

RECURSIVE MapScope(_, _)
MapScope(sels, sid) ==
  IF sels = <<>> THEN <<>>
  ELSE <<ScopeSelector(Head(sels), sid)>> \o MapScope(Tail(sels), sid)

\* the selectors of a rule-start line
SelectorsOf(trimmedLine) ==
  MapTrim(Split(Trim(SubSeq(trimmedLine, 1, IndexOf(trimmedLine, "{") - 1)), ","))

\* the text written for a rule start
RuleStartLine(trimmedLine, sid) ==
  Join(MapScope(SelectorsOf(trimmedLine), sid), <<",", " ">>)
    \o <<" ", "{">>
    \o SubSeq(trimmedLine, IndexOf(trimmedLine, "{") + 1, Len(trimmedLine))
    \o <<"\n">>

\* the condition of the rule-start branch
StartsRule(trimmedLine, in) == Includes(trimmedLine, "{") /\ ~in

\* the condition of the rule-end branch
EndsRule(trimmedLine, in) == Includes(trimmedLine, "}") /\ in

\* one iteration of the for-of loop over the lines
LineStep(st, line, sid) ==
  LET trimmedLine == Trim(line) IN
  IF trimmedLine = <<>>
    THEN [st EXCEPT !.processedCss = @ \o <<"\n">>]
  ELSE IF StartsRule(trimmedLine, st.inRule)
    THEN [inRule |-> TRUE,
          currentSelectors |-> SelectorsOf(trimmedLine),
          processedCss |-> st.processedCss \o RuleStartLine(trimmedLine, sid)]
  ELSE IF EndsRule(trimmedLine, st.inRule)
    THEN [inRule |-> FALSE,
          currentSelectors |-> <<>>,
          processedCss |-> st.processedCss \o trimmedLine \o <<"\n">>]
  ELSE [st EXCEPT !.processedCss = @ \o trimmedLine \o <<"\n">>]

ScoperStart == [inRule |-> FALSE, currentSelectors |-> <<>>, processedCss |-> <<>>]

RECURSIVE ScopeLines(_, _, _)
ScopeLines(st, lines, sid) ==
  IF lines = <<>> THEN st
  ELSE ScopeLines(LineStep(st, Head(lines), sid), Tail(lines), sid)

\* const lines = css.split("\n")
LinesOf(text) == Split(text, "\n")

\* transformScopedCss(css, scopeId)
transformScopedCss(text, sid) ==
  ScopeLines(ScoperStart, LinesOf(text), sid).processedCss

(* ------------------------------------------------------------------ *)
(* Component name and scope id                                         *)
(* ------------------------------------------------------------------ *)

\* the characters of a token, as char codes (String.prototype.charCodeAt)
CharCodes(tok) ==
  CASE tok = "a" -> <<97>>
    [] tok = "b" -> <<98>>
    [] tok = "c" -> <<99>>
    [] tok = "n" -> <<110>>
    [] tok = "p" -> <<112>>
    [] tok = "C" -> <<67>>
    [] tok = "/" -> <<47>>
    [] tok = ".olova" -> <<46, 111, 108, 111, 118, 97>>
    [] tok = ".js" -> <<46, 106, 115>>

RECURSIVE CodesOf(_)
CodesOf(str) ==
  IF str = <<>> THEN <<>> ELSE CharCodes(Head(str)) \o CodesOf(Tail(str))

\* hash = (hash << 5) - hash + char; hash = hash & hash
\* A 32-bit value is kept as two 16-bit halves: (h << 5) - h + c is
\* 31 * h + c modulo 2^32.
HashStep(h, char) ==
  LET lo == 31 * h.lo + char
      hi == 31 * h.hi + (lo \div 65536)
  IN  [hi |-> hi % 65536, lo |-> lo % 65536]

RECURSIVE HashLoop(_, _)
HashLoop(h, codes) ==
  IF codes = <<>> THEN h ELSE HashLoop(HashStep(h, Head(codes)), Tail(codes))

\* Math.abs(hash) of the signed 32-bit value, again as two halves
AbsInt32(h) ==
  IF h.hi < 32768 THEN h
  ELSE IF h.lo = 0 THEN [hi |-> 65536 - h.hi, lo |-> 0]
  ELSE [hi |-> 65535 - h.hi, lo |-> 65536 - h.lo]

HexDigits == <<"0", "1", "2", "3", "4", "5", "6", "7",
               "8", "9", "a", "b", "c", "d", "e", "f">>

\* n.toString(16)
RECURSIVE ToHex(_)
ToHex(n) ==
  IF n < 16 THEN <<HexDigits[n + 1]>>
  ELSE ToHex(n \div 16) \o <<HexDigits[(n % 16) + 1]>>

\* the low half written with its leading zeros
Hex4(n) ==
  <<HexDigits[(n \div 4096) + 1], HexDigits[((n \div 256) % 16) + 1],
    HexDigits[((n \div 16) % 16) + 1], HexDigits[(n % 16) + 1]>>

\* simpleHash(str)
simpleHash(str) ==
  LET m == AbsInt32(HashLoop([hi |-> 0, lo |-> 0], CodesOf(str))) IN
  IF m.hi = 0 THEN ToHex(m.lo) ELSE ToHex(m.hi) \o Hex4(m.lo)

\* s.substring(0, n)
Substring0(s, n) == SubSeq(s, 1, IF Len(s) < n THEN Len(s) ELSE n)

\* const scopeId = `data-v-${hash}`
ScopeIdOf(id) == <<"data-v-">> \o Substring0(simpleHash(id), 8)

\* id.endsWith(".olova")
IsOlova(id) == id # <<>> /\ id[Len(id)] = ".olova"

\* the part of a path after its last "/"
RECURSIVE LastSegment(_)
LastSegment(path) ==
  LET k == IndexOf(path, "/") IN
  IF k = 0 THEN path ELSE LastSegment(SubSeq(path, k + 1, Len(path)))

\* path.basename(id, ".olova"), for a file whose name is more than the extension
Basename(id) ==
  LET seg == LastSegment(id) IN
  IF Len(seg) > 1 /\ seg[Len(seg)] = ".olova"
    THEN SubSeq(seg, 1, Len(seg) - 1) ELSE seg

\* c.toUpperCase()
ToUpperCase(c) ==
  CASE c = "a" -> "A"
    [] c = "b" -> "B"
    [] c = "c" -> "C"
    [] c = "n" -> "N"
    [] c = "p" -> "P"
    [] OTHER -> c

\* fileName.charAt(0).toUpperCase() + fileName.slice(1)
ComponentNameOf(id) ==
  LET fileName == Basename(id) IN
  IF fileName = <<>> THEN <<>>
  ELSE <<ToUpperCase(Head(fileName))>> \o Tail(fileName)

(* ------------------------------------------------------------------ *)
(* transform: the sections of a component file and the emitted module  *)
(*                                                                      *)
(* A component file is [script, styles, html]: the statements of its     *)
(* <script> block, its <style> blocks in text order, each                *)
(* [scoped, content], and the elements of the remaining markup, each     *)
(* [tag, attrs, dataComponent]. A statement is [kind, name, path, ext].  *)
(* ------------------------------------------------------------------ *)

\* const styleTagMatch = code.match(styleMatch) || []: the first block
StyleTagMatch(code) == IF code.styles = <<>> THEN <<>> ELSE <<Head(code.styles)>>

\* const isScoped = styleTagMatch[1] !== undefined
IsScoped(code) == StyleTagMatch(code) # <<>> /\ StyleTagMatch(code)[1].scoped

\* const styleContent = styleTagMatch[2] || ""
StyleContent(code) ==
  IF StyleTagMatch(code) = <<>> THEN <<>> ELSE StyleTagMatch(code)[1].content

\* const scriptContent = (code.match(scriptMatch) || [])[1] || ""
ScriptContent(code) == code.script

\* a <style> block the two replace() calls leave in the markup
RawStyleElement == [tag |-> "style", attrs |-> "", dataComponent |-> ""]

RECURSIVE RawStyles(_)
RawStyles(blocks) ==
  IF blocks = <<>> THEN <<>> ELSE <<RawStyleElement>> \o RawStyles(Tail(blocks))

\* let htmlContent = code.replace(script).replace(style).trim()
HtmlContent(code) ==
  code.html \o (IF code.styles = <<>> THEN <<>> ELSE RawStyles(Tail(code.styles)))

\* importRegex matches this statement
IsOlovaImport(stmt) == stmt.kind = "import" /\ stmt.ext = ".olova"

\* the while loop over importRegex.exec(scriptContent)
RECURSIVE ImportsOf(_)
ImportsOf(script) ==
  IF script = <<>> THEN <<>>
  ELSE (IF IsOlovaImport(Head(script))
          THEN <<[name |-> Head(script).name,
                  path |-> Head(script).path \o <<".olova">>]>>
          ELSE <<>>)
       \o ImportsOf(Tail(script))

\* htmlContent.replace(componentTagRegex, ...) for one import
RECURSIVE ReplaceTags(_, _)
ReplaceTags(html, name) ==
  IF html = <<>> THEN <<>>
  ELSE (IF Head(html).tag = name
          THEN <<[tag |-> "div", attrs |-> Head(html).attrs, dataComponent |-> name]>>
          ELSE <<Head(html)>>)
       \o ReplaceTags(Tail(html), name)

\* imports.forEach((imp) => { htmlContent = htmlContent.replace(...) })
RECURSIVE RewriteTemplate(_, _)
RewriteTemplate(html, imports) ==
  IF imports = <<>> THEN html
  ELSE RewriteTemplate(ReplaceTags(html, Head(imports).name), Tail(imports))

\* the statement kinds the chain of replace() calls removes
SetPropsKinds == {"setPropsImport", "setPropsDecl", "setPropsCall", "setPropsAssign",
                  "setPropsFunction"}

\* const modifiedScriptContent = scriptContent.replace(...)...
RECURSIVE ModifiedScript(_)
ModifiedScript(script) ==
  IF script = <<>> THEN <<>>
  ELSE (IF IsOlovaImport(Head(script)) \/ Head(script).kind \in SetPropsKinds
          THEN <<>> ELSE <<Head(script)>>)
       \o ModifiedScript(Tail(script))

\* let processedStyle = styleContent; if (isScoped) processedStyle = transformScopedCss(...)
ProcessedStyle(code, id) ==
  IF IsScoped(code) THEN transformScopedCss(StyleContent(code), ScopeIdOf(id))
  ELSE StyleContent(code)

\* if (styleContent): a non-empty string is truthy
HasStyle(code) == StyleContent(code) # <<>>

\* let cssCode = ""; if (styleContent && !isProd) cssCode = `...`
\* The injection statement is [componentName, textContent]; "" is <<>>.
CssCode(code, id, prod) ==
  IF HasStyle(code) /\ ~prod
    THEN <<[componentName |-> ComponentNameOf(id),
            textContent |-> ProcessedStyle(code, id)]>>
    ELSE <<>>

\* resultCode: what the emitted module is made of
ResultCode(code, id, prod) ==
  [componentName |-> ComponentNameOf(id),
   imports |-> ImportsOf(ScriptContent(code)),
   cssCode |-> CssCode(code, id, prod),
   isScoped |-> IsScoped(code),
   scopeId |-> ScopeIdOf(id),
   template |-> RewriteTemplate(HtmlContent(code), ImportsOf(ScriptContent(code))),
   script |-> ModifiedScript(ScriptContent(code))]

\* the value transform returns: null is <<>>, { code, map: null } is <<code>>
TransformResult(code, id, prod) ==
  IF ~IsOlova(id) THEN <<>> ELSE <<ResultCode(code, id, prod)>>

(* ------------------------------------------------------------------ *)
(* The plugin object returned by olovaPlugin()                         *)
(* ------------------------------------------------------------------ *)

\* Map.prototype.has
MapHas(m, k) == \E i \in 1..Len(m) : m[i].key = k

\* Map.prototype.get, of a key the map has
MapGet(m, k) == m[CHOOSE i \in 1..Len(m) : m[i].key = k].value

\* MapSet that leaves an existing key's value alone (first compiled wins)
MapSetKeepFirst(m, k, v) ==
  IF MapHas(m, k) THEN m ELSE Append(m, [key |-> k, value |-> v])

\* MapSet as delete-then-set: an existing key moves to the end
MapSetMoveToEnd(m, k, v) ==
  SelectSeq(m, LAMBDA e : e.key # k) \o <<[key |-> k, value |-> v]>>

\* Map.prototype.set: an existing key keeps its place, a new key goes last
MapSet(m, k, v) ==
  IF MapHas(m, k)
    THEN [i \in 1..Len(m) |-> IF m[i].key = k THEN [key |-> k, value |-> v] ELSE m[i]]
    ELSE Append(m, [key |-> k, value |-> v])

\* Map.prototype.size
MapSize(m) == Len(m)

\* the keys of the map, in iteration order
RECURSIVE MapKeys(_)
MapKeys(m) == IF m = <<>> THEN <<>> ELSE <<Head(m).key>> \o MapKeys(Tail(m))

\* `/* ${componentName} Component Styles */\n\n${css}\n\n\n\n`
CssBlock(componentName, text) ==
  <<"/* ">> \o componentName \o <<" Component Styles */", "\n", "\n">>
    \o text \o <<"\n", "\n", "\n", "\n">>

\* for (const [componentName, css] of allCssContent.entries()) combinedCss += ...
RECURSIVE CombinedCss(_)
CombinedCss(m) ==
  IF m = <<>> THEN <<>>
  ELSE CssBlock(Head(m).key, Head(m).value) \o CombinedCss(Tail(m))

\* the emitFile calls of generateBundle
EmitCalls(m) ==
  IF MapSize(m) > 0
    THEN <<[type |-> "asset", fileName |-> "assets/style.css", source |-> CombinedCss(m)]>>
    ELSE <<>>

LinkTag == "  <link rel=\"stylesheet\" href=\"/assets/style.css\">"

\* the value transformIndexHtml(html) returns
IndexHtml(html, m, prod) ==
  IF MapSize(m) > 0 /\ prod
    THEN ReplaceFirst(html, "</head>", <<LinkTag, "\n", "</head>">>)
    ELSE html

\* isProd = config.isProduction || config.mode === "production"
ResolvedIsProd(config) == config.isProduction \/ config.mode = "production"

NoCode == [script |-> <<>>, styles |-> <<>>, html |-> <<>>]

\* a hook call, with the map as it was before the call
Call(op) ==
  [op |-> op, id |-> <<>>, code |-> NoCode, html |-> <<>>, ret |-> <<>>, emitted |-> <<>>,
   before |-> allCssContent]

(* ---- bounds and inputs of the build session ---- *)

\* styled compiles per build
MaxCompiles == 3

FileIds ==
  { <<"a", "/", "c", ".olova">>, <<"b", "/", "c", ".olova">>,
    <<"n", ".olova">>, <<"c", ".js">> }

\* .a { d }
CssOneLine == <<".a", " ", "{", " ", "d", " ", "}">>

\* .a {\n  d\n}
CssMultiLine == <<".a", " ", "{", "\n", " ", "d", "\n", "}">>

HeadingElement == [tag |-> "h1", attrs |-> "", dataComponent |-> ""]

Codes ==
  { [script |-> <<>>, styles |-> <<>>, html |-> <<HeadingElement>>],
    [script |-> <<>>, styles |-> <<[scoped |-> FALSE, content |-> CssOneLine]>>,
     html |-> <<HeadingElement>>],
    [script |-> <<>>, styles |-> <<[scoped |-> TRUE, content |-> CssMultiLine]>>,
     html |-> <<HeadingElement>>],
    [script |-> <<>>, styles |-> <<[scoped |-> TRUE, content |-> <<>>]>>,
     html |-> <<HeadingElement>>],
    [script |-> <<>>,
     styles |-> <<[scoped |-> FALSE, content |-> <<>>],
                  [scoped |-> FALSE, content |-> CssOneLine]>>,
     html |-> <<>>] }

Configs == [isProduction : BOOLEAN, mode : {"production", "development"}]

Htmls ==
  { <<"<head>", "</head>", "<body>", "</body>">>,
    <<"<body>", "</body>">>,
    <<"<head>", "</head>", "<body>", "</head>", "</body>">> }

\* What transform derives from its arguments alone, computed once per input:
\* componentName, processedStyle and the returned value.
ComponentNames == [id \in FileIds |-> ComponentNameOf(id)]

ProcessedStyles == [code \in Codes |-> [id \in FileIds |-> ProcessedStyle(code, id)]]

TransformResults ==
  [code \in Codes |-> [id \in FileIds |->
    [prod \in BOOLEAN |-> TransformResult(code, id, prod)]]]

\* StoreCss without the test of styleContent
StoreCssAlways(m, code, id) ==
  IF IsOlova(id) THEN MapSet(m, ComponentNames[id], ProcessedStyles[code][id]) ELSE m

\* if (styleContent) allCssContent.set(componentName, processedStyle), past the
\* early return of a file that is no .olova file
StoreCss(m, code, id) ==
  IF IsOlova(id) /\ HasStyle(code)
    THEN MapSet(m, ComponentNames[id], ProcessedStyles[code][id])
    ELSE m

(* ---- the hooks ---- *)

configResolved(config) ==
  /\ isProd' = ResolvedIsProd(config)
  /\ last' = Call("configResolved")
  /\ UNCHANGED <<allCssContent, compiled, phase, bundle, cssVars, browserVars>>

buildStart ==
  /\ allCssContent' = <<>>
  /\ compiled' = <<>>
  /\ phase' = "compiling"
  /\ bundle' = <<>>
  /\ last' = Call("buildStart")
  /\ UNCHANGED <<isProd, cssVars, browserVars>>

generateBundle ==
  /\ last' = [Call("generateBundle") EXCEPT !.emitted = EmitCalls(allCssContent)]
  /\ bundle' = IF EmitCalls(allCssContent) = <<>> THEN bundle ELSE EmitCalls(allCssContent)
  /\ phase' = IF phase \in {"compiling", "generated"} THEN "generated" ELSE "none"
  /\ UNCHANGED <<allCssContent, isProd, compiled, cssVars, browserVars>>

transform(code, id) ==
  /\ (IsOlova(id) /\ HasStyle(code)) => Len(compiled) < MaxCompiles
  /\ allCssContent' = StoreCss(allCssContent, code, id)
  /\ compiled' =
       IF IsOlova(id) /\ HasStyle(code)
         THEN Append(compiled, [name |-> ComponentNames[id],
                                css |-> ProcessedStyles[code][id]])
         ELSE compiled
  /\ phase' = IF phase = "compiling" THEN "compiling" ELSE "none"
  /\ last' = [Call("transform") EXCEPT !.id = id, !.code = code,
                                       !.ret = TransformResults[code][id][isProd]]
  /\ UNCHANGED <<isProd, bundle, cssVars, browserVars>>

transformIndexHtml(html) ==
  /\ last' = [Call("transformIndexHtml") EXCEPT !.html = html,
                                                !.ret = IndexHtml(html, allCssContent, isProd)]
  /\ UNCHANGED <<allCssContent, isProd, compiled, phase, bundle, cssVars, browserVars>>

(* ------------------------------------------------------------------ *)
(* The browser: the document, the emitted modules, olova.js mount      *)
(*                                                                      *)
(* The document is a sequence of nodes; a node's index is its identity  *)
(* and its parent field its parent (0: none). Nodes are only ever       *)
(* appended as last child, so a node's children in order are its        *)
(* children by index.                                                   *)
(* ------------------------------------------------------------------ *)

Node(tag, id, olova, dataComponent, scope, parent) ==
  [tag |-> tag, id |-> id, olova |-> olova, dataComponent |-> dataComponent,
   scope |-> scope, parent |-> parent]

\* <html><head></head><body><div id="app"><p></p></div></body></html>
InitialDocument ==
  << Node("html", "", <<>>, "", <<>>, 0),
     Node("head", "", <<>>, "", <<>>, 1),
     Node("body", "", <<>>, "", <<>>, 1),
     Node("div", "app", <<>>, "", <<>>, 3),
     Node("p", "", <<>>, "", <<>>, 4) >>

\* document.documentElement
RootNode == CHOOSE n \in 1..Len(InitialDocument) : InitialDocument[n].tag = "html"

\* document.head
HeadNode == CHOOSE n \in 1..Len(InitialDocument) : InitialDocument[n].tag = "head"

\* node.children, in order
RECURSIVE ChildrenFrom(_, _, _)
ChildrenFrom(d, n, i) ==
  IF i > Len(d) THEN <<>>
  ELSE (IF d[i].parent = n THEN <<i>> ELSE <<>>) \o ChildrenFrom(d, n, i + 1)

Children(d, n) == ChildrenFrom(d, n, 1)

\* the descendants of a node in document order
RECURSIVE Descendants(_, _)
RECURSIVE DescendantsOfAll(_, _)
Descendants(d, n) == DescendantsOfAll(d, Children(d, n))
DescendantsOfAll(d, ns) ==
  IF ns = <<>> THEN <<>>
  ELSE <<Head(ns)>> \o Descendants(d, Head(ns)) \o DescendantsOfAll(d, Tail(ns))

\* a.contains(b): b is a or a descendant of a
RECURSIVE Contains(_, _, _)
Contains(d, a, b) ==
  a = b \/ (d[b].parent # 0 /\ Contains(d, a, d[b].parent))

\* document.querySelector("#" + id): the first match in the document, 0 for null
QuerySelectorById(d, id) ==
  LET all == Descendants(d, RootNode)
      hits == SelectSeq(all, LAMBDA n : d[n].id = id)
  IN  IF hits = <<>> THEN 0 ELSE Head(hits)

\* the selectors the page uses, each "#<id>"
SelectorId(selector) ==
  CASE selector = "#app" -> "app"
    [] selector = "#missing" -> "missing"

\* document.querySelector(selector)
QuerySelector(d, selector) == QuerySelectorById(d, SelectorId(selector))

\* document.querySelector('style[data-olova-component="<name>"]') is not null
HasStyleElement(d, name) ==
  \E n \in 1..Len(d) :
    d[n].tag = "style" /\ d[n].olova = name /\ Contains(d, RootNode, n)

\* container.querySelectorAll('[data-component="<name>"]')
QueryPlaceholders(d, container, name) ==
  SelectSeq(Descendants(d, container), LAMBDA n : d[n].dataComponent = name)

\* ClearContent that clears nothing
ClearNothing(d, target) == d

\* targetElement.innerHTML = "": every child leaves the target
ClearContent(d, target) ==
  [i \in 1..Len(d) |-> IF d[i].parent = target THEN [d[i] EXCEPT !.parent = 0] ELSE d[i]]

\* targetElement.appendChild(node)
AppendChild(d, target, n) == [d EXCEPT ![n].parent = target]

\* targetElement.removeChild(node); of a node that is no child it throws
\* NotFoundError and changes nothing
RemoveChild(d, target, n) ==
  IF d[n].parent = target THEN [d EXCEPT ![n].parent = 0] ELSE d

\* the container of the component instance a node belongs to, 0 if none
RECURSIVE OwnerOf(_, _)
OwnerOf(d, n) ==
  IF d[n].parent = 0 THEN 0
  ELSE IF d[d[n].parent].olova # <<>> /\ d[d[n].parent].tag = "div" THEN d[n].parent
  ELSE OwnerOf(d, d[n].parent)

(* ---- the program the page runs: p imports a and b, a imports b ---- *)

FileP == <<"p", ".olova">>
FileA == <<"a", ".olova">>
FileB == <<"b", ".olova">>

ProgramFiles == {FileP, FileA, FileB}

ImportStmt(name, file) ==
  [kind |-> "import", name |-> name, path |-> <<".", "/", file>>, ext |-> ".olova"]

Tag(name) == [tag |-> name, attrs |-> "", dataComponent |-> ""]

ProgramCode(f) ==
  CASE f = FileP ->
         [script |-> <<ImportStmt("A", "a"), ImportStmt("B", "b"),
                       [kind |-> "setPropsCall", name |-> "", path |-> <<>>, ext |-> ""]>>,
          styles |-> <<[scoped |-> TRUE, content |-> CssMultiLine]>>,
          html |-> <<Tag("h1"), Tag("A"), Tag("B")>>]
    [] f = FileA ->
         [script |-> <<ImportStmt("B", "b")>>,
          styles |-> <<[scoped |-> FALSE, content |-> CssOneLine]>>,
          html |-> <<Tag("B")>>]
    [] f = FileB ->
         [script |-> <<>>, styles |-> <<>>, html |-> <<Tag("h1")>>]

\* the modules the plugin emits for the files of the program, by build mode
Modules ==
  [prod \in BOOLEAN |-> [f \in ProgramFiles |-> ResultCode(ProgramCode(f), f, prod)]]

\* the module of a file in the page's build
Module(f) == Modules[isProd][f]

\* import X from './<path>': the sibling file the host resolves the import to
Resolve(imp) == LastSegment(imp.path)

(* ---- the emitted module ---- *)

\* InjectStyle without the test for an existing style element
InjectStyleUnguarded(d, m) ==
  IF m.cssCode # <<>>
    THEN Append(d, Node("style", "", m.cssCode[1].componentName, "", <<>>, HeadNode))
    ELSE d

\* ${cssCode}, run by <ComponentName>Component()
InjectStyle(d, m) ==
  IF m.cssCode # <<>> /\ ~HasStyleElement(d, m.cssCode[1].componentName)
    THEN Append(d, Node("style", "", m.cssCode[1].componentName, "", <<>>, HeadNode))
    ELSE d

\* export default <ComponentName>Component(): the module's evaluation,
\* after that of the imports not evaluated yet
RECURSIVE EvalModule(_, _)
RECURSIVE EvalImports(_, _)
EvalModule(st, f) ==
  LET st1 == EvalImports(st, Module(f).imports) IN
  [dom |-> InjectStyle(st1.dom, Module(f)), loaded |-> st1.loaded \cup {f}]
EvalImports(st, imports) ==
  IF imports = <<>> THEN st
  ELSE EvalImports(IF Resolve(Head(imports)) \in st.loaded
                     THEN st ELSE EvalModule(st, Resolve(Head(imports))),
                   Tail(imports))

\* container.innerHTML = `...`, and the scope attribute on the container's children
RECURSIVE TemplateNodes(_, _, _)
TemplateNodes(template, m, container) ==
  IF template = <<>> THEN <<>>
  ELSE <<Node(Head(template).tag, "", <<>>, Head(template).dataComponent,
              IF m.isScoped THEN m.scopeId ELSE <<>>, container)>>
       \o TemplateNodes(Tail(template), m, container)

\* the container of a new instance, not yet in any tree
NewContainer(m) ==
  Node("div", "", m.componentName, "", IF m.isScoped THEN m.scopeId ELSE <<>>, 0)

\* the function the module exports, applied to targetElement: the document and
\* the call log after it. The container is node Len(st.dom) + 1.
RECURSIVE MountFn(_, _, _)
RECURSIVE MountChildren(_, _, _)
RECURSIVE MountEach(_, _, _)
MountFn(st, f, targetElement) ==
  LET m == Module(f)
      container == Len(st.dom) + 1
      built == st.dom \o <<NewContainer(m)>> \o TemplateNodes(m.template, m, container)
      owner == OwnerOf(st.dom, targetElement)
      entered == Append(st.calls, [file |-> f, target |-> targetElement,
                                   appended |-> owner = 0 \/ st.dom[owner].parent # 0])
  IN  MountChildren([dom |-> AppendChild(built, targetElement, container),
                     calls |-> entered],
                    container, m.imports)
MountChildren(st, container, imports) ==
  IF imports = <<>> THEN st
  ELSE MountChildren(
         MountEach(st, QueryPlaceholders(st.dom, container, Head(imports).name),
                   Head(imports)),
         container, Tail(imports))
MountEach(st, els, imp) ==
  IF els = <<>> THEN st
  ELSE MountEach(MountFn(st, Resolve(imp), Head(els)), Tail(els), imp)

\* Cleanup that empties the target
CleanupEverything(d, h) == ClearContent(d, h.target)

\* the cleanup function returned by the mount function
Cleanup(d, h) ==
  IF Contains(d, h.target, h.container)
    THEN RemoveChild(d, h.target, h.container)
    ELSE d

(* ---- olova.js ---- *)

NoopHandle == [kind |-> "noop", target |-> 0, container |-> 0]

CleanupHandle(target, container) ==
  [kind |-> "cleanup", target |-> target, container |-> container]

\* mount(componentMount, selector, props = {}), componentMount the export of file f:
\* the document, the call log, the console and the returned function after it
mount(st, f, selector) ==
  LET targetElement == QuerySelector(st.dom, selector) IN
  IF targetElement # 0
    THEN LET cleared == ClearContent(st.dom, targetElement)
             mounted == MountFn([dom |-> cleared, calls |-> st.calls], f, targetElement)
         IN  [dom |-> mounted.dom, calls |-> mounted.calls, errors |-> st.errors,
              ret |-> CleanupHandle(targetElement, Len(cleared) + 1)]
    ELSE [dom |-> st.dom, calls |-> st.calls,
          errors |-> Append(st.errors, <<"Target element ", selector, " not found">>),
          ret |-> NoopHandle]

(* ---- bounds and inputs of the page ---- *)

\* mount calls the page makes
MaxMounts == 2

Selectors == {"#app", "#missing"}

\* the nodes the page passes to an exported mount function itself
DirectTargets == {QuerySelectorById(InitialDocument, "app")}

Step(op) ==
  [op |-> op, file |-> <<>>, selector |-> "", target |-> 0, handle |-> 0,
   before |-> dom, callsBefore |-> Len(calls), errorsBefore |-> Len(errors),
   ret |-> NoopHandle]

(* ---- the steps of the page ---- *)

\* import("<f>"), first or again (a hot reload evaluates the module again)
LoadModule(f) ==
  LET st == EvalModule([dom |-> dom, loaded |-> loaded], f) IN
  /\ dom' = st.dom
  /\ loaded' = st.loaded
  /\ run' = [Step("load") EXCEPT !.file = f]
  /\ UNCHANGED <<calls, handles, errors, cssVars, pluginVars>>

\* the exported mount function called on a node
CallMount(f, targetElement) ==
  LET st == MountFn([dom |-> dom, calls |-> calls], f, targetElement) IN
  /\ f \in loaded
  /\ Len(handles) < MaxMounts
  /\ dom' = st.dom
  /\ calls' = st.calls
  /\ handles' = Append(handles, CleanupHandle(targetElement, Len(dom) + 1))
  /\ run' = [Step("call") EXCEPT !.file = f, !.target = targetElement,
                                 !.ret = CleanupHandle(targetElement, Len(dom) + 1)]
  /\ UNCHANGED <<loaded, errors, cssVars, pluginVars>>

\* mount(Component, selector) of olova.js
RuntimeMount(f, selector) ==
  LET st == mount([dom |-> dom, calls |-> calls, errors |-> errors], f, selector) IN
  /\ f \in loaded
  /\ Len(handles) < MaxMounts
  /\ dom' = st.dom
  /\ calls' = st.calls
  /\ errors' = st.errors
  /\ handles' = Append(handles, st.ret)
  /\ run' = [Step("mount") EXCEPT !.file = f, !.selector = selector,
                                  !.target = QuerySelector(dom, selector),
                                  !.ret = st.ret]
  /\ UNCHANGED <<loaded, cssVars, pluginVars>>

\* a returned teardown function called, for the first time or again
CallTeardown(k) ==
  /\ k \in 1..Len(handles)
  /\ dom' = IF handles[k].kind = "cleanup" THEN Cleanup(dom, handles[k]) ELSE dom
  /\ run' = [Step("teardown") EXCEPT !.handle = k, !.ret = handles[k]]
  /\ UNCHANGED <<loaded, calls, handles, errors, cssVars, pluginVars>>

(* ------------------------------------------------------------------ *)
(* The scoper, line by line, on well-formed style sheets               *)
(* ------------------------------------------------------------------ *)

\* rules an at-rule block holds at most
MaxNested == 2

\* items a style sheet holds at most
MaxItems == 3

\* .a { d }
OneLineRule == [text |-> CssOneLine, roles |-> <<"rule1">>]

\* :root { d }
RootRule == [text |-> <<":root", " ", "{", " ", "d", " ", "}">>, roles |-> <<"rule1">>]

\* .a, .b {\n  d\n}
MultiLineRule ==
  [text |-> <<".a", ",", " ", ".b", " ", "{", "\n", " ", " ", "d", "\n", "}">>,
   roles |-> <<"open", "decl", "close">>]

BlankLine == [text |-> <<>>, roles |-> <<"blank">>]

\* n times:   .b {\n    d\n  }\n
RECURSIVE NestedRules(_)
NestedRules(n) ==
  IF n = 0 THEN [text |-> <<>>, roles |-> <<>>]
  ELSE [text |-> <<" ", " ", ".b", " ", "{", "\n", " ", " ", " ", " ", "d", "\n",
                   " ", " ", "}", "\n">> \o NestedRules(n - 1).text,
        roles |-> <<"nopen", "ndecl", "nclose">> \o NestedRules(n - 1).roles]

\* @media x {\n <n nested rules> }
AtBlock(n) ==
  [text |-> <<"@media", " ", "x", " ", "{", "\n">> \o NestedRules(n).text \o <<"}">>,
   roles |-> <<"at">> \o NestedRules(n).roles \o <<"atclose">>]

Items == {OneLineRule, RootRule, MultiLineRule, BlankLine} \cup {AtBlock(n) : n \in 1..MaxNested}

\* the items written one after the other, a "\n" between two
RECURSIVE Sheet(_)
Sheet(items) ==
  IF items = <<>> THEN [text |-> <<>>, roles |-> <<"blank">>]
  ELSE IF Len(items) = 1 THEN Head(items)
  ELSE [text |-> Head(items).text \o <<"\n">> \o Sheet(Tail(items)).text,
        roles |-> Head(items).roles \o Sheet(Tail(items)).roles]

Sheets == {Sheet(items) : items \in UNION {[1..n -> Items] : n \in 0..MaxItems}}

\* the state of the loop as one record
LoopState ==
  [inRule |-> inRule, currentSelectors |-> currentSelectors, processedCss |-> processedCss]

\* for (const line of lines) { ... }: one iteration
ScopeLine ==
  LET st == LineStep(LoopState, LinesOf(css)[pos], scopeId) IN
  /\ pos <= Len(LinesOf(css))
  /\ inRule' = st.inRule
  /\ currentSelectors' = st.currentSelectors
  /\ processedCss' = st.processedCss
  /\ pos' = pos + 1
  /\ UNCHANGED <<css, shape, scopeId, pluginVars, browserVars>>

(* ------------------------------------------------------------------ *)
(* Specifications                                                       *)
(* ------------------------------------------------------------------ *)

ScoperIdle ==
  /\ css = <<>> /\ shape = <<>> /\ scopeId = <<>> /\ pos = 1
  /\ inRule = FALSE /\ currentSelectors = <<>> /\ processedCss = <<>>

PluginIdle ==
  /\ allCssContent = <<>> /\ compiled = <<>> /\ phase = "none" /\ bundle = <<>>
  /\ last = [op |-> "olovaPlugin", id |-> <<>>, code |-> NoCode, html |-> <<>>,
             ret |-> <<>>, emitted |-> <<>>, before |-> <<>>]

BrowserIdle ==
  /\ dom = InitialDocument /\ loaded = {} /\ calls = <<>> /\ handles = <<>>
  /\ errors = <<>>
  /\ run = [op |-> "open", file |-> <<>>, selector |-> "", target |-> 0, handle |-> 0,
            before |-> InitialDocument, callsBefore |-> 0, errorsBefore |-> 0,
            ret |-> NoopHandle]

\* a call of transformScopedCss(css, scopeId)
InitCss ==
  /\ \E sheet \in Sheets : css = sheet.text /\ shape = sheet.roles
  /\ scopeId \in {ScopeIdOf(id) : id \in {f \in FileIds : IsOlova(f)}}
  /\ pos = 1 /\ inRule = FALSE /\ currentSelectors = <<>> /\ processedCss = <<>>
  /\ PluginIdle /\ isProd = FALSE
  /\ BrowserIdle

NextCss == ScopeLine

SpecCss == InitCss /\ [][NextCss]_vars

\* a plugin object, from olovaPlugin() on
InitBuild ==
  /\ PluginIdle
  /\ isProd \in BOOLEAN
  /\ ScoperIdle
  /\ BrowserIdle

NextBuild ==
  \/ \E config \in Configs : configResolved(config)
  \/ buildStart
  \/ generateBundle
  \/ \E code \in Codes, id \in FileIds : transform(code, id)
  \/ \E html \in Htmls : transformIndexHtml(html)

SpecBuild == InitBuild /\ [][NextBuild]_vars

\* a page that runs the emitted modules of the program
InitRun ==
  /\ BrowserIdle
  /\ PluginIdle
  /\ isProd \in BOOLEAN
  /\ ScoperIdle

NextRun ==
  \/ \E f \in ProgramFiles : LoadModule(f)
  \/ \E f \in ProgramFiles, t \in DirectTargets : CallMount(f, t)
  \/ \E f \in ProgramFiles, selector \in Selectors : RuntimeMount(f, selector)
  \/ \E k \in 1..MaxMounts : CallTeardown(k)

SpecRun == InitRun /\ [][NextRun]_vars

Spec == SpecBuild

(* ------------------------------------------------------------------ *)
(* Properties of the build session (SpecBuild)                          *)
(* ------------------------------------------------------------------ *)

\* the ComponentNames compiled with style since the last buildStart
NamesCompiled == {compiled[i].name : i \in 1..Len(compiled)}

\* the processed CSS of the most recent styled compile of a name
LatestCss(name) ==
  compiled[CHOOSE i \in 1..Len(compiled) :
             /\ compiled[i].name = name
             /\ \A j \in (i + 1)..Len(compiled) : compiled[j].name # name].css

\* the names of a compile log, each once, in the order of their first compile
RECURSIVE FirstCompileOrder(_)
FirstCompileOrder(log) ==
  IF log = <<>> THEN <<>>
  ELSE LET before == FirstCompileOrder(SubSeq(log, 1, Len(log) - 1))
           name == log[Len(log)].name
       IN  IF \E i \in 1..Len(before) : before[i] = name
             THEN before ELSE Append(before, name)

\* the names of a compile log, each once, in the order of their latest compile
RECURSIVE LatestCompileOrder(_)
LatestCompileOrder(log) ==
  IF log = <<>> THEN <<>>
  ELSE LET rest == LatestCompileOrder(Tail(log))
           name == Head(log).name
       IN  IF \E i \in 1..Len(rest) : rest[i] = name
             THEN rest ELSE <<name>> \o rest

\* one comment-labelled block per name, in the given order
RECURSIVE BlocksInOrder(_)
BlocksInOrder(names) ==
  IF names = <<>> THEN <<>>
  ELSE CssBlock(Head(names), LatestCss(Head(names))) \o BlocksInOrder(Tail(names))

StyleAsset(source) ==
  [type |-> "asset", fileName |-> "assets/style.css", source |-> source]

\* the last call was transform of a component file without a style section
StylelessTransform ==
  last.op = "transform" /\ IsOlova(last.id) /\ last.code.styles = <<>>

\* C1 as stated: after transform of a component file with no style section the
\* returned module has empty style-injection code and the map has no entry
\* under the file's ComponentName.
C1_NoEntryAfterStylelessTransform ==
  StylelessTransform =>
    /\ last.ret[1].cssCode = <<>>
    /\ ~MapHas(allCssContent, ComponentNameOf(last.id))

\* C1 amended: after transform of a component file with no style section the
\* returned module has empty style-injection code and the map is exactly as it
\* was before the call; it holds the file's ComponentName only if a file of
\* that name was compiled with non-empty style since the last buildStart.
C1_StylelessTransformAddsNoEntry ==
  StylelessTransform =>
    /\ last.ret[1].cssCode = <<>>
    /\ allCssContent = last.before
    /\ MapHas(allCssContent, ComponentNameOf(last.id))
         <=> ComponentNameOf(last.id) \in NamesCompiled

\* a style-less file compiled after a styled file of the same ComponentName
C1_Witness ==
  StylelessTransform /\ MapHas(allCssContent, ComponentNameOf(last.id))

\* C2: the map holds exactly one entry per ComponentName compiled with
\* non-empty style since the last buildStart, its value the processed CSS of
\* the latest such compile; buildStart leaves it empty; transform of a file
\* that is no component file returns null and leaves it unchanged.
C2_AggregatorContent ==
  /\ \A i, j \in 1..Len(allCssContent) :
       allCssContent[i].key = allCssContent[j].key => i = j
  /\ {allCssContent[i].key : i \in 1..Len(allCssContent)} = NamesCompiled
  /\ \A i \in 1..Len(allCssContent) :
       allCssContent[i].value = LatestCss(allCssContent[i].key)
  /\ last.op = "buildStart" => allCssContent = <<>>
  /\ (last.op = "transform" /\ ~IsOlova(last.id)) =>
       last.ret = <<>> /\ allCssContent = last.before

\* two names in the map, one of them compiled twice with different CSS
C2_Witness ==
  /\ Len(allCssContent) = 2
  /\ \E i, j \in 1..Len(compiled) :
       i < j /\ compiled[i].name = compiled[j].name /\ compiled[i].css # compiled[j].css

\* what generateBundle emits when the blocks are in the given order
EmitsInOrder(names) ==
  /\ last.emitted = <<>> <=> allCssContent = <<>>
  /\ allCssContent # <<>> => last.emitted = <<StyleAsset(BlocksInOrder(names))>>

\* C3 as stated: generateBundle emits one asset at assets/style.css iff the
\* map is non-empty, one block per entry, the blocks in the order of the
\* compiles that produced them, recompiles included.
C3_BlocksInCompileOrder ==
  last.op = "generateBundle" => EmitsInOrder(LatestCompileOrder(compiled))

\* C3 amended: generateBundle emits one asset at assets/style.css iff the map
\* is non-empty, one block per entry, the blocks in the order in which each
\* ComponentName was first compiled with style since the last buildStart; a
\* recompile replaces the CSS of its block without moving the block.
C3_BlocksInInsertionOrder ==
  last.op = "generateBundle" => EmitsInOrder(FirstCompileOrder(compiled))

\* a bundle generated after the first-compiled name was compiled again
C3_Witness ==
  /\ last.op = "generateBundle"
  /\ last.emitted # <<>>
  /\ FirstCompileOrder(compiled) # LatestCompileOrder(compiled)

\* the link stands immediately before </head>
LinkBeforeHeadClose(html) ==
  \E i \in 1..(Len(html) - 2) :
    html[i] = LinkTag /\ html[i + 1] = "\n" /\ html[i + 2] = "</head>"

\* C8: transformIndexHtml inserts the link immediately before </head> iff the
\* plugin is in production mode and the map is non-empty, and returns the
\* HTML unchanged otherwise; in a production build (buildStart, transforms,
\* generateBundle, transformIndexHtml) the link is injected exactly when the
\* build emitted the combined stylesheet.
C8_LinkIffProductionAndStyles ==
  last.op = "transformIndexHtml" =>
    /\ LinkBeforeHeadClose(last.ret) <=> (isProd /\ allCssContent # <<>>)
    /\ ~(isProd /\ allCssContent # <<>>) => last.ret = last.html
    /\ (phase = "generated" /\ isProd) =>
         (LinkBeforeHeadClose(last.ret) <=> bundle # <<>>)

(* ------------------------------------------------------------------ *)
(* Properties of the page (SpecRun)                                     *)
(* ------------------------------------------------------------------ *)

\* the invocations of mount functions made by the page's last step
NewCalls == SubSeq(calls, run.callsBefore + 1, Len(calls))

\* the style elements in the document tagged with a ComponentName
StyleElements(d, name) ==
  {n \in 1..Len(d) : d[n].tag = "style" /\ d[n].olova = name /\ Contains(d, RootNode, n)}

\* all style elements of the document
AllStyleElements(d) == {n \in 1..Len(d) : d[n].tag = "style" /\ Contains(d, RootNode, n)}

\* C5: olova.js mount on a selector that matches nothing reports an error,
\* invokes no factory, leaves the document unchanged and returns a no-op
\* teardown; on a match the target's old content is gone when the factory has
\* run, the factory is invoked exactly once, with the target, and the value
\* returned is the factory's own teardown.
C5_RuntimeMount ==
  run.op = "mount" =>
    IF run.target = 0
      THEN /\ Len(errors) = run.errorsBefore + 1
           /\ errors[Len(errors)] = <<"Target element ", run.selector, " not found">>
           /\ NewCalls = <<>>
           /\ dom = run.before
           /\ run.ret = NoopHandle
      ELSE /\ errors = SubSeq(errors, 1, run.errorsBefore)
           /\ \A n \in 1..Len(run.before) :
                run.before[n].parent = run.target => dom[n].parent = 0
           /\ Children(dom, run.target) = <<run.ret.container>>
           /\ Len(SelectSeq(NewCalls, LAMBDA c : c.target = run.target)) = 1
           /\ NewCalls[1].file = run.file /\ NewCalls[1].target = run.target
           /\ run.ret = CleanupHandle(run.target, Len(run.before) + 1)
           /\ dom[run.ret.container].olova = ComponentNameOf(run.file)

\* a mount on a target that had content
C5_Witness ==
  /\ run.op = "mount" /\ run.target # 0
  /\ \E n \in 1..Len(run.before) : run.before[n].parent = run.target

\* C6: outside production the document never holds more than one style element
\* tagged with a ComponentName, whatever modules are loaded or loaded again,
\* and a mount adds no style element; in production the emitted modules hold
\* no style-injection code and the document gets no style element.
C6_StyleInjectedOnce ==
  /\ \A f \in ProgramFiles : Cardinality(StyleElements(dom, ComponentNameOf(f))) <= 1
  /\ run.op \in {"call", "mount"} => AllStyleElements(dom) = AllStyleElements(run.before)
  /\ isProd => /\ \A f \in ProgramFiles : Module(f).cssCode = <<>>
               /\ AllStyleElements(dom) = {}

\* a styled component's module loaded again, its style element in place
C6_Witness ==
  /\ ~isProd
  /\ run.op = "load"
  /\ StyleElements(run.before, ComponentNameOf(run.file)) # {}
  /\ \E k \in 1..Len(handles) : handles[k].kind = "cleanup"

\* C7: a teardown removes its own container from its target iff the container
\* is still a child of the target, changes nothing else (no other instance's
\* container is removed), leaves the target without the container, and does
\* nothing when called again.
C7_Teardown ==
  (run.op = "teardown" /\ run.ret.kind = "cleanup") =>
    LET t == run.ret.target
        c == run.ret.container
    IN  /\ run.before[c].parent = t => dom = [run.before EXCEPT ![c].parent = 0]
        /\ run.before[c].parent # t => dom = run.before
        /\ \A n \in 1..Len(dom) : n # c => dom[n].parent = run.before[n].parent
        /\ ~Contains(dom, t, c)
        /\ Cleanup(dom, run.ret) = dom

\* a teardown that removed its container from a target holding another instance
C7_Witness ==
  /\ run.op = "teardown" /\ run.ret.kind = "cleanup"
  /\ run.before[run.ret.container].parent = run.ret.target
  /\ \E n \in 1..Len(dom) :
       n # run.ret.container /\ dom[n].olova # <<>> /\ dom[n].parent = run.ret.target

\* the file an import of the program binds a local name to
ImportedFile(name) == CASE name = "A" -> FileA [] name = "B" -> FileB

\* C9: when a mount function has run, every placeholder of the tree it built
\* has had its import's mount function invoked on it exactly once, and only
\* after the container holding the placeholder was appended to its target.
C9_ChildMountedOncePerPlaceholder ==
  (run.op \in {"call", "mount"} /\ run.target # 0) =>
    \A n \in (Len(run.before) + 1)..Len(dom) :
      dom[n].dataComponent # "" =>
        LET on == SelectSeq(NewCalls, LAMBDA c : c.target = n) IN
        /\ Len(on) = 1
        /\ on[1].file = ImportedFile(dom[n].dataComponent)
        /\ on[1].appended

(* ------------------------------------------------------------------ *)
(* Properties of the scoper (SpecCss)                                   *)
(* ------------------------------------------------------------------ *)

\* the lines written so far (each ends in "\n", so a last empty piece follows)
OutLines == LinesOf(processedCss)

\* the line the scoper is to write for a rule-start line
ScopedLine(line) == RuleStartLine(Trim(line), scopeId)

NestedRoles == {"at", "nopen", "ndecl", "nclose", "atclose"}

\* C4: in a sheet of top-level rules only, written on one line or over several,
\* every rule's selector list is written scoped, and inRule is false again
\* after each rule's closing brace.
C4_EveryTopLevelRuleScoped ==
  (\A i \in 1..Len(shape) : shape[i] \notin NestedRoles) =>
    /\ \A i \in 1..(pos - 1) :
         shape[i] \in {"rule1", "open"} =>
           OutLines[i] \o <<"\n">> = ScopedLine(LinesOf(css)[i])
    /\ (pos > 1 /\ shape[pos - 1] \in {"rule1", "close"}) => ~inRule

\* C10: in a sheet of multi-line rules and at-rule blocks, the at-rule line is
\* written without a scope token, every rule nested in the block is written
\* unchanged, and the first top-level rule after the block is written scoped.
C10_AtRuleBlockPassedThrough ==
  (\A i \in 1..Len(shape) : shape[i] # "rule1") =>
    \A i \in 1..(pos - 1) :
      /\ shape[i] = "at" => ~Includes(OutLines[i], "[")
      /\ shape[i] = "nopen" => OutLines[i] = Trim(LinesOf(css)[i])
      /\ (shape[i] = "open" /\ i > 1 /\ shape[i - 1] = "atclose") =>
           OutLines[i] \o <<"\n">> = ScopedLine(LinesOf(css)[i])

====
